---- MODULE Spec2Model ----
(***************************************************************************)
(* A model of the apes.js application lifecycle (Application.run), of the  *)
(* HTTP server's startup and shutdown (HTTPServer.execute / .run), of its  *)
(* request pipeline and of the choice of its port and listener.            *)
(* Spec follows a run and the server, HttpSpec the request pipeline,       *)
(* ServeSpec a server handling a request, BootSpec the server's start-up.  *)
(*                                                                         *)
(* The repository holds three generations of the same library:             *)
(*   "class"  : lib/application.js:198-345 and lib/http-server.js          *)
(*   "ts"     : lib/main.ts and lib/http/profiler.js:47-449 (TypeScript)   *)
(*   "object" : lib/application.js:17-177 and unnamed/part_003             *)
(* One process loads one of them; `variant` says which.                    *)
(*                                                                         *)
(* process.exit ends the process: no handler of the program runs after it. *)
(***************************************************************************)
EXTENDS Integers, Sequences, FiniteSets, TLC

\* ---------------------------------------------------------------- bounds
MaxExec == 2
MaxConn == 2
MaxSignals == 2

Variants == {"class", "ts", "object"}
Signals == {"SIGTERM", "SIGINT", "SIGUSR2"}
SignalOrder == <<"SIGTERM", "SIGINT", "SIGUSR2">>
Insts == 1..MaxExec
Conns == 1..MaxConn

ListenErrors == {"EACCES", "EMFILE"}
NotRunning == "ERR_SERVER_NOT_RUNNING"
CloseErrors == {"CLOSE_ERROR", NotRunning}
NoError == "none"
TlsError == "ENOENT"

VARIABLES
  variant,      \* which generation of the library the process loaded
  pc,           \* position of the one tracked invocation of Application.run
  error,        \* run's local `error` (NoError = null)
  cleaned,      \* run's local `cleaned`
  trace,        \* the lifecycle steps invoked by run, in order
  exitCode,     \* -1 while the process lives, else the code given to process.exit (2 = killed by a signal)
  runResult,    \* the promise returned by run
  runInst,      \* the server instance created by run's execute step (0 = none)
  exitSignal,   \* HTTPServer.run's local `exitSignal` ("0" = unset)
  nExec,        \* number of execute invocations so far
  listener,     \* per instance: state of the listener (this.server)
  listenCalls,  \* per instance: number of calls of listen
  sockets,      \* per instance: the closure's `sockets` set
  promise,      \* per instance: the promise returned by execute
  closeCbs,     \* per instance: callbacks passed to server.close, not yet called
  shutdowns,    \* per instance: how many times the signal handler body ran
  handlers,     \* per signal: the registered listeners, first to last (instance ids)
  conn,         \* per connection: state, owning instance, whether a request is in flight
  connEvents,   \* per instance: connections whose connection event was received
  closeEvents,  \* per instance: connections whose close event was received
  events,       \* the calls made by the handlers of the last signal delivered, in order
  nSignals,     \* number of signals delivered so far
  nKinds,       \* number of different signals delivered so far
  sigSeen,      \* per instance: a signal was delivered while it was the process's listening server
  firstClose,   \* per instance: what the first call of server.close reported ("unset" before it)
  production,   \* Application.production
  req,          \* the request in the pipeline (NoReq if none)
  rpc,          \* the pipeline stage the request is at
  reqBody,      \* req.body as the body parsers left it
  thrown,       \* the error handed to the error handler (NoThrow if none)
  res,          \* the response: headersSent, status, body
  appLog,       \* what this.logger.error was called with for this request
  reqLog,       \* the records logRequest logged for this request
  nReq,         \* number of requests received so far
  cors,         \* addCORSHandling's closure: whether it was called, and its `origin`
  ran,          \* the pipeline stages invoked for this request, in order
  io,           \* this request's calls of sendResponse / redirectTo, log records and writes, in order
  envPORT,      \* process.env.PORT
  envSSL,       \* process.env.SSL
  filePort,     \* the port written in the configuration file
  cfgPort,      \* configuration.httpServer.port (configuration.port in the object variant)
  cfgSsl,       \* configuration.httpServer.ssl.enabled
  port,         \* this.port (server.port in the object variant)
  bound,        \* the port handed to listen
  tls,          \* the listener created: "none" yet, "http" or "https"
  tlsRead,      \* whether the key and certificate files were read
  bpc           \* how far the server's start-up is: "new", "configured", "listening"

runVars == <<pc, error, cleaned, trace, exitCode, runResult, runInst, exitSignal>>
srvVars == <<nExec, listener, listenCalls, sockets, promise, closeCbs, shutdowns, handlers,
             conn, connEvents, closeEvents, events, nSignals, nKinds, sigSeen, firstClose>>
httpVars == <<production, req, rpc, reqBody, thrown, res, appLog, reqLog, nReq, cors, ran, io>>
bootVars == <<envPORT, envSSL, filePort, cfgPort, cfgSsl, port, bound, tls, tlsRead, bpc>>
vars == <<variant, runVars, srvVars, httpVars, bootVars>>

Pending == [st |-> "pending", err |-> NoError]
Resolved == [st |-> "resolved", err |-> NoError]
Rejected(e) == [st |-> "rejected", err |-> e]

Alive == exitCode = -1

\* ------------------------------------------------------------ helpers
Min(S) == CHOOSE x \in S : \A y \in S : x <= y

RECURSIVE SetToSeq(_)
SetToSeq(S) == IF S = {} THEN <<>> ELSE <<Min(S)>> \o SetToSeq(S \ {Min(S)})

\* Mutation: the last call of resolve or reject wins.
SettleAlways(p, outcome) == outcome

\* A promise is settled once: resolve and reject are no-ops afterwards.
Settle(p, outcome) == IF p.st = "pending" THEN outcome ELSE p

\* ------------------------------------------------- HTTP server: state
NoConn == [st |-> "none", owner |-> 0, inflight |-> FALSE]

Running(i) == listener[i] \in {"binding", "listening"}

\* The connections of instance i that the listener still counts as open.
OpenConns(i) == {c \in Conns : conn[c].owner = i /\ conn[c].st \in {"open", "destroyed"}}

\* ------------------------------------ HTTPServer.execute / HTTPServer.run
\* Mutation: the handlers of earlier invocations stay registered.
InstallHandlersKeepingEarlier(h, i) == [s \in Signals |-> <<i>> \o h[s]]

\* Registration of the signal handlers of invocation i.
\* class, ts: process.removeAllListeners(signal); process.on(signal, handler)
\* object   : process.prependOnceListener(signal, handler)
InstallHandlers(h, i) ==
  [s \in Signals |-> IF variant = "object" THEN <<i>> \o h[s] ELSE <<i>>]

\* Whether a listener stays registered after it was called for signal s.
KeepsHandler == variant # "object"

\* The classes read the TLS key and certificate inside execute
\* (sslConfig, readFileSync); the object reads them in create, before run.
ReadsTlsInExecute == variant # "object"

\* The body of execute (and of the main loop HTTPServer.run hands to
\* Application.run), run inside the promise's executor: create the
\* listener, listen, register the handlers. If sslConfig throws, the
\* executor ends there: the promise is rejected, nothing else was done.
ExecuteBody(i, tlsOk) ==
  /\ tlsOk \/ ReadsTlsInExecute
  /\ nExec' = i
  /\ IF tlsOk
     THEN /\ listener' = [listener EXCEPT ![i] = "binding"]
          /\ listenCalls' = [listenCalls EXCEPT ![i] = @ + 1]
          /\ promise' = [promise EXCEPT ![i] = Pending]
          /\ handlers' = InstallHandlers(handlers, i)
     ELSE /\ promise' = [promise EXCEPT ![i] = Rejected(TlsError)]
          /\ UNCHANGED <<listener, listenCalls, handlers>>
  /\ sockets' = [sockets EXCEPT ![i] = {}]
  /\ UNCHANGED <<closeCbs, shutdowns, conn, connEvents, closeEvents, events, nSignals, nKinds, sigSeen, firstClose>>

\* execute called by a caller other than the tracked run: the test suites
\* call prepare().then(() => execute()) once per test in one process, and
\* HTTPServer.run of the object once per test (the Application.run around
\* such a further main loop is not followed).
Execute(tlsOk) ==
  /\ Alive
  /\ pc = "idle"
  /\ nExec < MaxExec
  /\ ExecuteBody(nExec + 1, tlsOk)
  /\ UNCHANGED <<variant, runVars>>
  /\ UNCHANGED <<httpVars, bootVars>>

\* The listen callback: the port is bound, the server logs it.
Listening(i) ==
  /\ Alive
  /\ listener[i] = "binding"
  /\ listener' = [listener EXCEPT ![i] = "listening"]
  /\ UNCHANGED <<variant, runVars, nExec, listenCalls, sockets, promise, closeCbs, shutdowns,
                 handlers, conn, connEvents, closeEvents, events, nSignals, nKinds, sigSeen, firstClose>>
  /\ UNCHANGED <<httpVars, bootVars>>

\* Mutation: a failed listen is retried instead of rejecting.
ListenerErrorRetry(i, e) ==
  /\ Alive
  /\ \/ e = "EACCES" /\ listener[i] = "binding"
     \/ e = "EMFILE" /\ listener[i] = "listening"
  /\ listenCalls[i] < 2
  /\ listener' = [listener EXCEPT ![i] = "binding"]
  /\ listenCalls' = [listenCalls EXCEPT ![i] = @ + 1]
  /\ UNCHANGED <<variant, runVars, nExec, sockets, promise, closeCbs, shutdowns,
                 handlers, conn, connEvents, closeEvents, events, nSignals, nKinds, sigSeen, firstClose>>
  /\ UNCHANGED <<httpVars, bootVars>>

\* server.on("error", reject). EACCES is a failed bind (the listener never
\* runs), EMFILE a failed accept on a running listener.
ListenerError(i, e) ==
  /\ Alive
  /\ \/ e = "EACCES" /\ listener[i] = "binding"
     \/ e = "EMFILE" /\ listener[i] = "listening"
  /\ listener' = [listener EXCEPT ![i] = IF e = "EACCES" THEN "failed" ELSE @]
  /\ promise' = [promise EXCEPT ![i] = Settle(@, Rejected(e))]
  /\ UNCHANGED <<variant, runVars, nExec, listenCalls, sockets, closeCbs, shutdowns,
                 handlers, conn, connEvents, closeEvents, events, nSignals, nKinds, sigSeen, firstClose>>
  /\ UNCHANGED <<httpVars, bootVars>>

\* Mutation: accepted sockets are not recorded.
OnConnectionUntracked(s, i, c) == s

\* server.on("connection", socket => { sockets.add(socket); socket.on("close", ...) })
OnConnection(s, i, c) == [s EXCEPT ![i] = @ \cup {c}]

Connection(i, c) ==
  /\ Alive
  /\ listener[i] = "listening"
  /\ c = Min({d \in Conns : conn[d].st = "none"} \cup {MaxConn})
  /\ conn[c].st = "none"
  /\ conn' = [conn EXCEPT ![c] = [st |-> "open", owner |-> i, inflight |-> FALSE]]
  /\ sockets' = OnConnection(sockets, i, c)
  /\ connEvents' = [connEvents EXCEPT ![i] = @ \cup {c}]
  /\ UNCHANGED <<variant, runVars, nExec, listener, listenCalls, promise, closeCbs, shutdowns,
                 handlers, closeEvents, events, nSignals, nKinds, sigSeen, firstClose>>
  /\ UNCHANGED <<httpVars, bootVars>>

\* A request arrives on a kept-alive connection; a response completes it.
\* Neither touches the tracked set.
Request(c) ==
  /\ Alive
  /\ conn[c].st = "open"
  /\ ~conn[c].inflight
  /\ conn' = [conn EXCEPT ![c].inflight = TRUE]
  /\ UNCHANGED <<variant, runVars, nExec, listener, listenCalls, sockets, promise, closeCbs,
                 shutdowns, handlers, connEvents, closeEvents, events, nSignals, nKinds, sigSeen, firstClose>>
  /\ UNCHANGED <<httpVars, bootVars>>

Response(c) ==
  /\ Alive
  /\ conn[c].st = "open"
  /\ conn[c].inflight
  /\ conn' = [conn EXCEPT ![c].inflight = FALSE]
  /\ UNCHANGED <<variant, runVars, nExec, listener, listenCalls, sockets, promise, closeCbs,
                 shutdowns, handlers, connEvents, closeEvents, events, nSignals, nKinds, sigSeen, firstClose>>
  /\ UNCHANGED <<httpVars, bootVars>>

\* Mutation: closed sockets stay in the set.
OnSocketCloseKept(s, i, c) == s

\* socket.on("close", () => sockets.delete(socket))
OnSocketClose(s, i, c) == [s EXCEPT ![i] = @ \ {c}]

CloseEvent(c) ==
  /\ conn' = [conn EXCEPT ![c].st = "closed", ![c].inflight = FALSE]
  /\ sockets' = OnSocketClose(sockets, conn[c].owner, c)
  /\ closeEvents' = [closeEvents EXCEPT ![conn[c].owner] = @ \cup {c}]
  /\ UNCHANGED <<variant, runVars, nExec, listener, listenCalls, promise, closeCbs, shutdowns,
                 handlers, connEvents, events, nSignals, nKinds, sigSeen, firstClose>>
  /\ UNCHANGED <<httpVars, bootVars>>

\* The peer ends an open connection.
PeerCloses(c) == Alive /\ conn[c].st = "open" /\ CloseEvent(c)

\* A socket on which destroy was called emits its close event.
DestroyedCloses(c) == Alive /\ conn[c].st = "destroyed" /\ CloseEvent(c)

\* The process's server: the last invocation that created its listener
\* (0 if none did).
Current ==
  LET made == {i \in 1..nExec : listenCalls[i] > 0}
  IN  IF made = {} THEN 0 ELSE CHOOSE i \in made : \A j \in made : j <= i

\* ------------------------------------------------- the signal handler
Range(f) == {f[k] : k \in DOMAIN f}

RECURSIVE Flatten(_)
Flatten(ss) == IF ss = <<>> THEN <<>> ELSE Head(ss) \o Flatten(Tail(ss))

\* Mutation: sockets with a request in flight are left to finish.
DestroyIdleOnly(i) == {c \in sockets[i] : ~conn[c].inflight}

\* for(let socket of sockets) socket.destroy();
DestroyTargets(i) == sockets[i]

DestroyCalls(i) ==
  LET sq == SetToSeq(DestroyTargets(i))
  IN  [k \in 1..Len(sq) |-> [kind |-> "destroy", inst |-> i, conn |-> sq[k], tracked |-> {}, err |-> NoError]]

\* What the callback of this call of server.close will report: an error
\* of its own if the listener is not running, else what the listener says.
CloseReport(i, ce) == IF Running(i) THEN ce ELSE NotRunning

CloseCall(i, ce) ==
  <<[kind |-> "close", inst |-> i, conn |-> 0, tracked |-> sockets[i], err |-> CloseReport(i, ce)]>>

\* The calls one run of the handler of invocation i makes, in order:
\* destroy every tracked socket, then this.server.close(callback).
HandlerCalls(i, ce) == DestroyCalls(i) \o CloseCall(i, ce)

\* A signal is delivered to the process: every registered listener runs,
\* first to last; with no listener the default action ends the process.
Deliver(sig, ce) ==
  /\ LET hs == handlers[sig]
         H == Range(hs)
         calls == Flatten([k \in 1..Len(hs) |-> HandlerCalls(hs[k], ce)])
         destroyed == {calls[k].conn : k \in {j \in 1..Len(calls) : calls[j].kind = "destroy"}}
     IN  IF hs = <<>>
         THEN /\ exitCode' = 2
              /\ UNCHANGED <<conn, listener, closeCbs, shutdowns, events, handlers, exitSignal, sigSeen, firstClose>>
         ELSE /\ conn' = [c \in Conns |-> IF c \in destroyed /\ conn[c].st = "open"
                                          THEN [conn[c] EXCEPT !.st = "destroyed"] ELSE conn[c]]
              /\ listener' = [i \in Insts |-> IF i \in H /\ Running(i) THEN "closing" ELSE listener[i]]
              /\ closeCbs' = [i \in Insts |-> IF i \in H THEN Append(closeCbs[i], CloseReport(i, ce))
                                              ELSE closeCbs[i]]
              /\ shutdowns' = [i \in Insts |-> IF i \in H THEN shutdowns[i] + 1 ELSE shutdowns[i]]
              /\ events' = calls
              /\ firstClose' = [i \in Insts |-> IF i \in H /\ firstClose[i] = "unset"
                                                THEN CloseReport(i, ce) ELSE firstClose[i]]
              /\ handlers' = IF KeepsHandler THEN handlers ELSE [handlers EXCEPT ![sig] = <<>>]
              /\ exitSignal' = IF variant = "object" /\ runInst \in H THEN sig ELSE exitSignal
              /\ sigSeen' = [i \in Insts |-> sigSeen[i] \/ (i = Current /\ listener[i] = "listening" /\ promise[i] = Pending)]
              /\ UNCHANGED exitCode
  /\ UNCHANGED <<variant, error, cleaned, trace, runResult, runInst,
                 nExec, listenCalls, sockets, promise, connEvents, closeEvents>>

\* The handlers treat the three signals alike, so the signals are
\* delivered up to renaming: a signal not delivered before is the next of
\* SignalOrder.
Signal(sig, ce) ==
  /\ Alive
  /\ nSignals < MaxSignals
  /\ \E k \in 1..Len(SignalOrder) :
       /\ sig = SignalOrder[k]
       /\ k <= nKinds + 1
       /\ nKinds' = IF k = nKinds + 1 THEN k ELSE nKinds
  /\ nSignals' = nSignals + 1
  /\ Deliver(sig, ce)
  /\ UNCHANGED pc
  /\ UNCHANGED <<httpVars, bootVars>>

\* Mutation: the callback ignores the error close reports.
OnCloseIgnoringError(p, err) == Settle(p, Resolved)

\* error => error ? reject(error) : resolve()
OnClose(p, err) == IF err = NoError THEN Settle(p, Resolved) ELSE Settle(p, Rejected(err))

\* The callback given to server.close runs once the listener has closed,
\* which needs every connection to have ended.
CloseCallback(i) ==
  /\ Alive
  /\ closeCbs[i] # <<>>
  /\ \/ listener[i] \in {"closed", "failed"}
     \/ listener[i] = "closing" /\ OpenConns(i) = {}
  /\ listener' = [listener EXCEPT ![i] = IF @ = "closing" THEN "closed" ELSE @]
  /\ promise' = [promise EXCEPT ![i] = OnClose(@, Head(closeCbs[i]))]
  /\ closeCbs' = [closeCbs EXCEPT ![i] = Tail(@)]
  /\ UNCHANGED <<variant, runVars, nExec, listenCalls, sockets, shutdowns, handlers,
                 conn, connEvents, closeEvents, events, nSignals, nKinds, sigSeen, firstClose>>
  /\ UNCHANGED <<httpVars, bootVars>>

\* ---------------------------------------------------- Application.run
\* HTTPServer.run (object) calls Application.run(application, main) with
\* no prepare and no cleanup function; the classes always have the hooks.
HookGiven == variant # "object"

\* Mutation: the error is recorded and the main sequence goes on.
FailGoesOn(e) == error' = e /\ pc' = "completionLog"

\* catch(e){ error = e; await this.logger.fatal(e); }
Fail(e) == error' = e /\ pc' = "fatal"

Called(step) == trace' = Append(trace, step)

CleanupCalls == Cardinality({k \in DOMAIN trace : trace[k] = "cleanup"})

\* Whether the fallback path calls cleanup: end(error, !cleaned) in the
\* class, _end(application, error, !cleaned ? cleanup : null) in the
\* object, and unconditionally in the finally block of the TypeScript run.
MustClean == IF variant = "ts" THEN TRUE ELSE ~cleaned

RunStart ==
  /\ Alive
  /\ pc = "idle"
  /\ nExec = 0
  /\ pc' = "logger"
  /\ UNCHANGED <<variant, error, cleaned, trace, exitCode, runResult, runInst, exitSignal, srvVars>>
  /\ UNCHANGED <<httpVars, bootVars>>

\* Mutation: after the report on stderr run goes on with the next step.
LoggerPrepareGoesOn(ok) ==
  /\ Alive
  /\ pc = "logger"
  /\ trace' = IF ok THEN Append(trace, "loggerPrepare")
                     ELSE trace \o <<"loggerPrepare", "consoleError">>
  /\ pc' = "load"
  /\ UNCHANGED <<variant, error, cleaned, exitCode, runResult, runInst, exitSignal, srvVars>>
  /\ UNCHANGED <<httpVars, bootVars>>

\* await this.logger.prepare(); on failure console.error and process.exit(1)
LoggerPrepare(ok) ==
  /\ Alive
  /\ pc = "logger"
  /\ IF ok THEN /\ Called("loggerPrepare")
                /\ pc' = "load"
                /\ UNCHANGED exitCode
           ELSE /\ trace' = trace \o <<"loggerPrepare", "consoleError">>
                /\ exitCode' = 1
                /\ UNCHANGED pc
  /\ UNCHANGED <<variant, error, cleaned, runResult, runInst, exitSignal, srvVars>>
  /\ UNCHANGED <<httpVars, bootVars>>

LoadConfiguration(ok) ==
  /\ Alive
  /\ pc = "load"
  /\ Called("loadConfiguration")
  /\ IF ok THEN pc' = "prepare" /\ UNCHANGED error ELSE Fail("loadConfiguration")
  /\ UNCHANGED <<variant, cleaned, exitCode, runResult, runInst, exitSignal, srvVars>>
  /\ UNCHANGED <<httpVars, bootVars>>

Prepare(ok) ==
  /\ Alive
  /\ pc = "prepare"
  /\ HookGiven \/ ok
  /\ IF HookGiven THEN Called("prepare") ELSE UNCHANGED trace
  /\ IF ok THEN pc' = "startLog" /\ UNCHANGED error ELSE Fail("prepare")
  /\ UNCHANGED <<variant, cleaned, exitCode, runResult, runInst, exitSignal, srvVars>>
  /\ UNCHANGED <<httpVars, bootVars>>

StartLog(ok) ==
  /\ Alive
  /\ pc = "startLog"
  /\ Called("startLog")
  /\ IF ok THEN pc' = "execute" /\ UNCHANGED error ELSE Fail("log")
  /\ UNCHANGED <<variant, cleaned, exitCode, runResult, runInst, exitSignal, srvVars>>
  /\ UNCHANGED <<httpVars, bootVars>>

\* await this.execute(): the hook of the HTTP server creates the listener
\* and returns the promise run waits for.
RunExecute(tlsOk) ==
  /\ Alive
  /\ pc = "execute"
  /\ nExec < MaxExec
  /\ Called("execute")
  /\ ExecuteBody(nExec + 1, tlsOk)
  /\ runInst' = nExec + 1
  /\ pc' = "await"
  /\ UNCHANGED <<variant, error, cleaned, exitCode, runResult, exitSignal>>
  /\ UNCHANGED <<httpVars, bootVars>>

\* Mutation: run goes on without waiting for the promise of execute.
ExecuteNotAwaited ==
  /\ Alive
  /\ pc = "await"
  /\ IF promise[runInst].st = "rejected"
     THEN Fail(promise[runInst].err)
     ELSE pc' = "completionLog" /\ UNCHANGED error
  /\ UNCHANGED <<variant, cleaned, trace, exitCode, runResult, runInst, exitSignal, srvVars>>
  /\ UNCHANGED <<httpVars, bootVars>>

ExecuteSettled ==
  /\ Alive
  /\ pc = "await"
  /\ promise[runInst].st # "pending"
  /\ IF promise[runInst].st = "resolved"
     THEN pc' = "completionLog" /\ UNCHANGED error
     ELSE Fail(promise[runInst].err)
  /\ UNCHANGED <<variant, cleaned, trace, exitCode, runResult, runInst, exitSignal, srvVars>>
  /\ UNCHANGED <<httpVars, bootVars>>

CompletionLog(ok) ==
  /\ Alive
  /\ pc = "completionLog"
  /\ Called("completionLog")
  /\ IF ok THEN pc' = "cleanup" /\ UNCHANGED error ELSE Fail("log")
  /\ UNCHANGED <<variant, cleaned, exitCode, runResult, runInst, exitSignal, srvVars>>
  /\ UNCHANGED <<httpVars, bootVars>>

\* The last step of the main sequence: await this.cleanup(), after which
\* start returns and run sets cleaned = true.
Cleanup(ok) ==
  /\ Alive
  /\ pc = "cleanup"
  /\ HookGiven \/ ok
  /\ IF HookGiven THEN Called("cleanup") ELSE UNCHANGED trace
  /\ IF ok THEN /\ pc' = "end"
                /\ cleaned' = (variant # "ts")
                /\ UNCHANGED error
           ELSE Fail("cleanup") /\ UNCHANGED cleaned
  /\ UNCHANGED <<variant, exitCode, runResult, runInst, exitSignal, srvVars>>
  /\ UNCHANGED <<httpVars, bootVars>>

\* The code logger.fatal gives to process.exit.
FatalExit == 1

\* logger.fatal: backend.errorAsync(...).then(() => process.exit(1)).
\* If the backend fails to log, the rejection leaves the catch block: the
\* classes' run rejects at once, the TypeScript run goes through finally.
Fatal(ok) ==
  /\ Alive
  /\ pc = "fatal"
  /\ Called("fatalLog")
  /\ IF ok
     THEN exitCode' = FatalExit /\ UNCHANGED <<pc, runResult>>
     ELSE IF variant = "ts"
          THEN pc' = "end" /\ UNCHANGED <<exitCode, runResult>>
          ELSE pc' = "done" /\ runResult' = Rejected("log") /\ UNCHANGED exitCode
  /\ UNCHANGED <<variant, error, cleaned, runInst, exitSignal, srvVars>>
  /\ UNCHANGED <<httpVars, bootVars>>

\* end / _end / finally: try{ if(mustClean) await this.cleanup(); }catch(e){}
\* ok: whether the cleanup hook, if invoked, returns; what it throws is
\* caught and dropped ("cleanupThrew" marks it in the trace).
End(ok) ==
  /\ Alive
  /\ pc = "end"
  /\ ok \/ (MustClean /\ HookGiven)
  /\ IF MustClean /\ HookGiven
     THEN trace' = trace \o (IF ok THEN <<"cleanup">> ELSE <<"cleanup", "cleanupThrew">>)
     ELSE UNCHANGED trace
  /\ pc' = "finalLog"
  /\ UNCHANGED <<variant, error, cleaned, exitCode, runResult, runInst, exitSignal, srvVars>>
  /\ UNCHANGED <<httpVars, bootVars>>

\* Mutation: the process always exits with 0.
FinalLogExitsZero(ok) ==
  /\ Alive
  /\ pc = "finalLog"
  /\ Called("finalLog")
  /\ exitCode' = 0
  /\ UNCHANGED <<variant, pc, runResult, error, cleaned, runInst, exitSignal, srvVars>>
  /\ UNCHANGED <<httpVars, bootVars>>

\* The final warn/info, then process.exit(error ? 1 : 0) in the classes;
\* the object's _end returns and run settles its promise.
FinalLog(ok) ==
  /\ Alive
  /\ pc = "finalLog"
  /\ Called("finalLog")
  /\ IF ~ok
     THEN pc' = "done" /\ runResult' = Rejected("log") /\ UNCHANGED exitCode
     ELSE IF variant = "object"
          THEN /\ runResult' = IF error = NoError THEN Resolved ELSE Rejected(error)
               /\ pc' = IF error = NoError THEN "kill" ELSE "done"
               /\ UNCHANGED exitCode
          ELSE /\ exitCode' = IF error = NoError THEN 0 ELSE 1
               /\ UNCHANGED <<pc, runResult>>
  /\ UNCHANGED <<variant, error, cleaned, runInst, exitSignal, srvVars>>
  /\ UNCHANGED <<httpVars, bootVars>>

\* HTTPServer.run: .then(() => process.kill(process.pid, exitSignal))
Kill ==
  /\ Alive
  /\ pc = "kill"
  /\ pc' = "done"
  /\ IF exitSignal \in Signals
     THEN Deliver(exitSignal, NoError)
     ELSE UNCHANGED <<variant, error, cleaned, trace, exitCode, runResult, runInst, exitSignal,
                      nExec, listener, listenCalls, sockets, promise, closeCbs, shutdowns,
                      handlers, conn, connEvents, closeEvents, events, sigSeen, firstClose>>
  /\ UNCHANGED <<nSignals, nKinds>>
  /\ UNCHANGED <<httpVars, bootVars>>

\* ------------------------------------------- HTTP server: the pipeline
\* Constants.HTTP.Statuses
OK == 200
NO_CONTENT == 204
FOUND == 302
BAD_REQUEST == 400
NOT_FOUND == 404
ERROR == 500

\* Constants.HTTP.StatusClasses
SEPARATOR == 100
REDIRECT == 3
CLIENT_ERROR == 4
SERVER_ERROR == 5

MaxReq == 2

Methods == {"GET", "POST", "PUT", "OPTIONS"}

\* Content-Type headers, as what follows "application/" up to "json" and
\* what comes after; Absent is a request without the header.
Absent == [type |-> "undefined", tree |-> "", sub |-> ""]
ContentTypes ==
  {[type |-> "application", tree |-> "", sub |-> "json"],
   [type |-> "application", tree |-> "vnd.api+", sub |-> "json"],
   [type |-> "text", tree |-> "", sub |-> "plain"],
   Absent}

\* Constants.HTTP.VALID_JSON_BODY: /^application\/(.+\+)?json/
VALID_JSON_BODY(ct) == ct.type = "application" /\ ct.sub = "json"

\* The bytes of the body: none sent, a JSON document, or anything else.
RawBodies == {"empty", "json", "garbage"}

\* Origin headers of requests ("" = no header) and the origin the consumer
\* passes to addCORSHandling ("" = none).
Origins == {"", "https://client.example"}
ConfiguredOrigins == {"", "https://app.example"}

NoThrow == [type |-> "none", message |-> "", stack |-> <<>>]

\* An error value: its class (or "string" for a thrown string), its
\* message and the lines of its stack ("at " marks a frame line).
Err(type, message) ==
  [type |-> type, message |-> message,
   stack |-> IF type = "string" THEN <<>>
             ELSE <<[at |-> FALSE, text |-> message], [at |-> TRUE, text |-> "handler (routes.js:1:1)"]>>]

\* An error object whose stack property is not set.
NoStackError == [type |-> "CustomError", message |-> "no trace", stack |-> <<>>]

ParserMessage == "Unexpected token g in JSON at position 0"
ContentTypeMessage == "Content-Type header must be match regular expression"
HeadersSentMessage == "Can't set headers after they are sent."
RouteErrors ==
  {Err("Error", "boom"), Err("SyntaxError", "bad template"), Err("string", "plain failure"),
   NoStackError}

\* Routes the consumer registered in addRoutes, besides GET /ping: one that
\* answers, one that throws, one that answers and then throws, one that
\* calls sendResponse twice, one that calls sendGeneralError, one that
\* calls redirectTo.
Routes == {"/ping", "/ok", "/throws", "/late", "/twice", "/general", "/redirect", "/missing"}

\* Codes the consumer's handlers hand to sendGeneralError and to
\* redirectTo (0 = none given).
ErrorCodes == {400, 523}
RedirectCodes == {0, 301}

\* Messages handed to sendGeneralError: a string, an object (with a code
\* of its own), null. fields: the object's properties, as <<name, value>>.
Msg(kind, text, fields) == [kind |-> kind, text |-> text, fields |-> fields]
Messages ==
  {Msg("string", "OK", {}),
   Msg("object", "", {<<"first", 1>>, <<"second", 2>>, <<"code", 7>>}),
   Msg("null", "null", {})}

\* Status codes the consumer's handlers hand to sendResponse (0 = none given).
Codes == {0, 299, 300, 399, 401, 499, 501, 599, 600}

NoReq == [method |-> "none", ctype |-> Absent, raw |-> "empty", route |-> "none",
          origin |-> "", fails |-> NoThrow]

\* A response body. form: "none", "text", "json" (a payload), "errors"
\* ({errors: [...]}), "error" ({error: ...}) or "raw" ({type, message, stack}).
\* fields: the further properties of the one error object of an envelope.
Body(form, code, message, detail, type, stack) ==
  [form |-> form, code |-> code, message |-> message, detail |-> detail, type |-> type,
   stack |-> stack, fields |-> {}]

NoBody == Body("none", 0, "", "", "", <<>>)
Payload == Body("json", 0, "", "", "", <<>>)

\* allowOrigin: the Access-Control-Allow-Origin header ("" = none of the
\* Access-Control-* headers, which are set together).
NoRes == [headersSent |-> FALSE, status |-> 0, body |-> NoBody, allowOrigin |-> ""]

NoCors == [installed |-> FALSE, configured |-> "", origin |-> ""]

\* Mutation: the status class is taken one code too late.
LogLevelOffByOne(code) ==
  LET class == (code - 1) \div SEPARATOR
  IN  IF class = CLIENT_ERROR THEN "warn"
      ELSE IF class = SERVER_ERROR THEN "error"
      ELSE IF class = REDIRECT THEN "debug"
      ELSE "info"

\* logRequest: switch(Math.floor(code / SEPARATOR))
LogLevel(code) ==
  LET class == code \div SEPARATOR
  IN  IF class = CLIENT_ERROR THEN "warn"
      ELSE IF class = SERVER_ERROR THEN "error"
      ELSE IF class = REDIRECT THEN "debug"
      ELSE "info"

\* Mutation: the body of a POST request is logged in every mode.
LogsBodyAlways == req.method = "POST"

\* logRequest: req.method === "POST" && !Application.production ? {body: req.body} : {}
\* (the TypeScript variant: req.method === "POST" ? {body: req.body} : {})
LogsBody == req.method = "POST" /\ (variant = "ts" \/ ~production)

\* logRequest: the record handed to the requests logger.
LogRequest(code) ==
  [status |-> code, level |-> LogLevel(code), method |-> req.method,
   body |-> IF LogsBody THEN reqBody ELSE "absent"]

\* What happens during a request: a call of sendResponse or redirectTo
\* with the code given, a record handed to the requests logger, a write to
\* the response (by: who wrote), a throw.
Event(kind, by, code) == [kind |-> kind, by |-> by, code |-> code]

\* Mutation: the response is written before the request is logged.
SendEventsWriteFirst(by, code, status) ==
  <<Event("call", by, code), Event("write", by, status), Event("log", by, status)>>

\* sendResponse, redirectTo: this.logRequest(code, req, startTime), then
\* res.status(code) ... res.send(content) / res.redirect(code, destination)
SendEvents(by, code, status) ==
  <<Event("call", by, code), Event("log", by, status), Event("write", by, status)>>

\* sendResponse: defaults the code, logs the request, writes the response.
SendResponse(code, content) ==
  /\ reqLog' = Append(reqLog, LogRequest(IF code = 0 THEN OK ELSE code))
  /\ res' = [res EXCEPT !.headersSent = TRUE, !.status = IF code = 0 THEN OK ELSE code,
                        !.body = content]
  /\ io' = io \o SendEvents("sendResponse", code, IF code = 0 THEN OK ELSE code)

\* redirectTo: defaults the code, logs the request, redirects.
RedirectTo(code, destination) ==
  /\ reqLog' = Append(reqLog, LogRequest(IF code = 0 THEN FOUND ELSE code))
  /\ res' = [res EXCEPT !.headersSent = TRUE, !.status = IF code = 0 THEN FOUND ELSE code,
                        !.body = Body("redirect", 0, destination, "", "", <<>>)]
  /\ io' = io \o SendEvents("redirectTo", code, IF code = 0 THEN FOUND ELSE code)

\* Mutation: the envelope carries no code.
GeneralErrorBodyNoCode(code, message, single) ==
  Body(IF single THEN "error" ELSE "errors", 0, message, "", "", <<>>)

\* sendGeneralError: {code, message} wrapped as {error: ...} or {errors: [...]}
GeneralErrorBody(code, message, single) ==
  Body(IF single THEN "error" ELSE "errors", code, message, "", "", <<>>)

SendGeneralError(code, message, single) ==
  SendResponse(code, GeneralErrorBody(code, message, single))

\* Mutation: compression is registered first, in every mode.
FirstStagesCompressionFirst == <<"compression", "profiler">>

\* this.express.use(profiler); if(Application.production) this.express.use(compression(...))
FirstStages == IF production THEN <<"profiler", "compression">> ELSE <<"profiler">>

\* A new request enters the pipeline (profiler, compression: no effect on
\* what follows).
Receive(m, ct, raw, rt, o, e) ==
  /\ Alive
  /\ rpc = "idle"
  /\ nReq < MaxReq
  /\ nReq' = nReq + 1
  /\ req' = [method |-> m, ctype |-> ct, raw |-> raw, route |-> rt, origin |-> o,
             fails |-> IF rt \in {"/throws", "/late"} THEN e ELSE NoThrow]
  /\ (rt \in {"/throws", "/late"} \/ e = Err("Error", "boom"))
  /\ rpc' = "json"
  /\ reqBody' = "undefined"
  /\ thrown' = NoThrow
  /\ res' = NoRes
  /\ appLog' = <<>>
  /\ reqLog' = <<>>
  /\ ran' = FirstStages
  /\ io' = <<>>
  /\ UNCHANGED <<variant, runVars, srvVars, bootVars, cors, production>>

\* bodyParser.json({type: req => validJsonBody.test(req.header("Content-Type"))})
JsonParser ==
  /\ Alive
  /\ rpc = "json"
  /\ IF VALID_JSON_BODY(req.ctype) /\ req.raw = "garbage"
     THEN /\ thrown' = Err("SyntaxError", ParserMessage)
          /\ rpc' = "error"
          /\ UNCHANGED reqBody
     ELSE /\ reqBody' = IF VALID_JSON_BODY(req.ctype) THEN "object" ELSE reqBody
          /\ rpc' = "text"
          /\ UNCHANGED thrown
  /\ ran' = Append(ran, "json")
  /\ UNCHANGED <<variant, runVars, srvVars, bootVars, cors, production, req, res, appLog, reqLog, nReq, io>>

\* bodyParser.text({type: req => !validJsonBody.test(req.header("Content-Type"))}):
\* a body not parsed yet is read as a string.
TextParser ==
  /\ Alive
  /\ rpc = "text"
  /\ reqBody' = IF reqBody # "undefined" THEN reqBody
                ELSE IF req.raw = "empty" THEN "empty string" ELSE "string"
  /\ rpc' = "check"
  /\ ran' = Append(ran, "text")
  /\ UNCHANGED <<variant, runVars, srvVars, bootVars, cors, production, req, thrown, res, appLog, reqLog, nReq, io>>

\* Mutation: no body is rejected.
RejectsBodyNever == FALSE

\* typeof req.body === "string" && req.body.length
RejectsBody == reqBody = "string"

\* if(typeof req.body === "string" && req.body.length) throw new SyntaxError(...)
OnlyJson ==
  /\ Alive
  /\ rpc = "check"
  /\ IF RejectsBody
     THEN thrown' = Err("SyntaxError", ContentTypeMessage) /\ rpc' = "error"
     ELSE rpc' = "ping" /\ UNCHANGED thrown
  /\ ran' = Append(ran, "onlyJson")
  /\ UNCHANGED <<variant, runVars, srvVars, bootVars, cors, production, req, reqBody, res, appLog, reqLog, nReq, io>>

\* Mutation: the ping route answers no request.
PingMatchesNever == FALSE

\* this.express.get("/ping", ...)
PingMatches == req.route = "/ping" /\ req.method = "GET"

\* res.status(200).set(...).end("pong"), for the requests the route matches.
Ping ==
  /\ Alive
  /\ rpc = "ping"
  /\ IF PingMatches
     THEN /\ res' = [res EXCEPT !.headersSent = TRUE, !.status = OK,
                                !.body = Body("text", 0, "pong", "", "", <<>>)]
          /\ rpc' = "done"
          /\ ran' = Append(ran, "ping")
          /\ io' = Append(io, Event("write", "ping", OK))
     ELSE /\ rpc' = "cors"
          /\ UNCHANGED <<res, ran, io>>
  /\ UNCHANGED <<variant, runVars, srvVars, bootVars, cors, production, req, reqBody, thrown, appLog, reqLog, nReq>>

\* The middleware's `origin` once its first lines ran: the TypeScript
\* variant assigns the request's header to the closure's parameter.
ClosureOrigin ==
  IF variant = "ts" /\ cors.origin = "" THEN req.origin ELSE cors.origin

\* const allowedOrigin = origin || req.header("Origin")
AllowedOrigin ==
  IF cors.origin # "" THEN cors.origin ELSE req.origin

\* "Access-Control-Allow-Origin": req.header("Origin") || origin
\* (the object variant: allowedOrigin)
AllowOriginHeader ==
  IF AllowedOrigin = "" THEN ""
  ELSE IF variant = "object" THEN AllowedOrigin
  ELSE IF req.origin # "" THEN req.origin
  ELSE cors.origin

\* addCORSHandling: the middleware, then the route answering every OPTIONS
\* request; both are missing when the consumer did not call it.
CORSHandling ==
  /\ Alive
  /\ rpc = "cors"
  /\ IF ~cors.installed
     THEN /\ rpc' = "route"
          /\ UNCHANGED <<res, cors, ran, io>>
     ELSE /\ cors' = [cors EXCEPT !.origin = ClosureOrigin]
          /\ IF req.method = "OPTIONS"
             THEN /\ res' = [res EXCEPT !.allowOrigin = AllowOriginHeader,
                                        !.headersSent = TRUE, !.status = NO_CONTENT]
                  /\ rpc' = "done"
                  /\ ran' = ran \o <<"middleware", "options">>
                  /\ io' = Append(io, Event("write", "options", NO_CONTENT))
             ELSE /\ res' = [res EXCEPT !.allowOrigin = AllowOriginHeader]
                  /\ rpc' = "route"
                  /\ ran' = Append(ran, "middleware")
                  /\ UNCHANGED io
  /\ UNCHANGED <<variant, runVars, srvVars, bootVars, production, req, reqBody, thrown, appLog, reqLog, nReq>>

\* The consumer's route handlers, then the catch all of addErrorHandling (404).
Route ==
  /\ Alive
  /\ rpc = "route"
  /\ req.route # "/general"
  /\ ran' = Append(ran, IF req.route \in Routes \ {"/ping", "/missing"} THEN "route" ELSE "404")
  /\ IF req.route = "/ok"
     THEN /\ \E code \in Codes : SendResponse(code, Payload)
          /\ rpc' = "done"
          /\ UNCHANGED thrown
     ELSE IF req.route = "/throws"
     THEN /\ thrown' = req.fails
          /\ rpc' = "error"
          /\ UNCHANGED <<res, reqLog, io>>
     ELSE IF req.route = "/late"
     THEN /\ SendResponse(0, Payload)
          /\ thrown' = req.fails
          /\ rpc' = "error"
     ELSE IF req.route = "/twice"
     THEN /\ SendResponse(0, Payload)
          /\ rpc' = "again"
          /\ UNCHANGED thrown
     ELSE IF req.route = "/redirect"
     THEN /\ \E code \in RedirectCodes : RedirectTo(code, "/elsewhere")
          /\ rpc' = "done"
          /\ UNCHANGED thrown
     ELSE /\ SendGeneralError(NOT_FOUND, "Not Found.", FALSE)
          /\ rpc' = "done"
          /\ UNCHANGED thrown
  /\ UNCHANGED <<variant, runVars, srvVars, bootVars, cors, production, req, reqBody, appLog, nReq>>

\* sendResponse called again by the handler, after the headers were sent:
\* the request is logged, res.status sets a code that is not written any
\* more, then res.type or res.send set a header, which throws; res.end
\* (for a null content) does nothing.
SendAgain(code, content) ==
  /\ Alive
  /\ rpc = "again"
  /\ reqLog' = Append(reqLog, LogRequest(IF code = 0 THEN OK ELSE code))
  /\ io' = io \o <<Event("call", "sendResponse", code),
                   Event("log", "sendResponse", IF code = 0 THEN OK ELSE code),
                   Event(IF content = NoBody THEN "end" ELSE "throw", "sendResponse", 0)>>
  /\ IF content = NoBody
     THEN rpc' = "done" /\ UNCHANGED thrown
     ELSE rpc' = "error" /\ thrown' = Err("Error", HeadersSentMessage)
  /\ UNCHANGED <<variant, runVars, srvVars, bootVars, cors, production, req, reqBody, res, appLog, nReq, ran>>

\* typeof message === "object"
IsObject(msg) == msg.kind \in {"object", "null"}

\* The TypeScript variant declares message: string and builds {code, message}.
MergesObject(msg) == variant # "ts" /\ IsObject(msg)

\* sendGeneralError with any message: Object.assign(message, {code}) for an
\* object, which throws a TypeError for null; else {code, message}.
GeneralErrorItem(code, msg, single) ==
  IF MergesObject(msg)
  THEN [Body(IF single THEN "error" ELSE "errors", code, "", "", "", <<>>)
          EXCEPT !.fields = {f \in msg.fields : f[1] # "code"}]
  ELSE GeneralErrorBody(code, msg.text, single)

NullMessage == "Cannot convert undefined or null to object"

\* The consumer's handler of /general calls sendGeneralError(req, res, code,
\* message, single); the TypeScript variant's consumers pass no object.
GeneralErrorRoute(code, msg, single) ==
  /\ Alive
  /\ rpc = "route"
  /\ req.route = "/general"
  /\ variant = "ts" => msg.kind # "object"
  /\ ran' = Append(ran, "route")
  /\ IF MergesObject(msg) /\ msg.kind = "null"
     THEN /\ thrown' = Err("TypeError", NullMessage)
          /\ rpc' = "error"
          /\ UNCHANGED <<res, reqLog, io>>
     ELSE /\ SendResponse(code, GeneralErrorItem(code, msg, single))
          /\ rpc' = "done"
          /\ UNCHANGED thrown
  /\ UNCHANGED <<variant, runVars, srvVars, bootVars, cors, production, req, reqBody, appLog, nReq>>

\* ---------------------------------------------- HTTPServer.errorHandler
\* Mutation: a response already sent is written again.
AlreadySentIgnored == FALSE

\* if(res.headersSent) return false;
AlreadySent == res.headersSent

\* error instanceof SyntaxError && req.method === "POST"
MalformedPost == thrown.type = "SyntaxError" /\ req.method = "POST"

\* Mutation: the answer to a malformed body leaves the parser's message out.
MalformedBodyNoDetail(e) ==
  Body("errors", BAD_REQUEST, "Invalid JSON POST data received.", "", "", <<>>)

\* {errors: [{code: 400, message: "Invalid JSON POST data received.", error: error.message}]}
MalformedBody(e) ==
  Body("errors", BAD_REQUEST, "Invalid JSON POST data received.", e.message, "", <<>>)

\* Mutation: the generic message is never used.
ShowsGenericNever == FALSE

\* if(Application.production)
ShowsGeneric == production

\* Mutation: the first line of the stack is kept.
FormatStackKeepsFirst(e) == [k \in DOMAIN e.stack |-> e.stack[k].text]

\* stack.shift(); stack.map(s => s.trim().replace(/^at\s/, ""))
FormatStack(e) ==
  IF e.stack = <<>> THEN <<>>
  ELSE [k \in 1..(Len(e.stack) - 1) |-> e.stack[k + 1].text]

\* {type: error.name, message: error.message, stack: [...]}
RawBody(e) == Body("raw", 0, e.message, "", e.type, FormatStack(e))

\* Mutation: the error is answered without being logged.
LogErrorSkipped(e) == appLog

\* this.logger.error(error)
LogError(e) == Append(appLog, e)

\* Mutation: the error handler throws the error again, which ends the process.
AfterErrorHandlerRethrown(code) == FatalExit

\* errorHandler answers and returns: it throws nothing and does not call
\* next, so the process goes on as it was.
AfterErrorHandler(code) == code

ErrorHandler ==
  /\ Alive
  /\ rpc = "error"
  /\ rpc' = "done"
  /\ exitCode' = AfterErrorHandler(exitCode)
  /\ ran' = Append(ran, "error")
  /\ IF AlreadySent
     THEN UNCHANGED <<res, appLog, reqLog, io>>
     ELSE IF MalformedPost
     THEN /\ res' = [res EXCEPT !.headersSent = TRUE, !.status = BAD_REQUEST,
                                !.body = MalformedBody(thrown)]
          /\ io' = Append(io, Event("write", "errorHandler", BAD_REQUEST))
          /\ UNCHANGED <<appLog, reqLog>>
     ELSE /\ appLog' = LogError(thrown)
          /\ IF ShowsGeneric
             THEN SendGeneralError(ERROR, "Internal Application Error.", FALSE)
             ELSE IF thrown.type = "string"
             THEN SendGeneralError(ERROR, thrown.message, FALSE)
             ELSE SendResponse(ERROR, RawBody(thrown))
  /\ UNCHANGED <<pc, error, cleaned, trace, runResult, runInst, exitSignal>>
  /\ UNCHANGED <<variant, srvVars, bootVars, cors, production, req, reqBody, thrown, nReq>>

\* The request is over; the pipeline takes the next one.
Complete ==
  /\ Alive
  /\ rpc = "done"
  /\ rpc' = "idle"
  /\ req' = NoReq
  /\ reqBody' = "undefined"
  /\ thrown' = NoThrow
  /\ res' = NoRes
  /\ appLog' = <<>>
  /\ reqLog' = <<>>
  /\ ran' = <<>>
  /\ io' = <<>>
  /\ UNCHANGED <<variant, runVars, srvVars, bootVars, cors, production, nReq>>

\* ------------------------------------- HTTP server: port and TLS set-up
\* HTTPServer.defaultPort (class and object variants), Server.defaultPort
\* (TypeScript variant)
defaultPort == 21080
tsDefaultPort == 3000

DefaultPort == IF variant = "ts" THEN tsDefaultPort ELSE defaultPort

\* JavaScript values: undefined, NaN, a number, a boolean, a string (as
\* the sequence of its characters).
Val(kind, n, s) == [kind |-> kind, n |-> n, s |-> s]
Undef == Val("undefined", 0, <<>>)
NaN == Val("NaN", 0, <<>>)
Num(n) == Val("number", n, <<>>)
Bool(b) == Val("boolean", IF b THEN 1 ELSE 0, <<>>)
Str(s) == Val("string", 0, s)

\* What the environment and the configuration file may hold.
EnvPorts == {Undef, Str(<<"8", "0", "8", "0">>), Str(<<"0">>), Str(<<"-", "1">>), Str(<<"I", "N", "V">>)}
FilePorts == {Undef, Num(3000), Num(0), Num(-1), Str(<<"a", "b", "c">>)}
EnvSSLs == {Undef, Str(<<"t", "r", "u", "e">>), Str(<<"f", "a", "l", "s", "e">>)}
FileSSLs == {Undef, Bool(TRUE), Bool(FALSE)}

\* The truth value JavaScript gives a value in a condition.
Truthy(v) ==
  \/ v.kind = "number" /\ v.n # 0
  \/ v.kind = "boolean" /\ v.n = 1
  \/ v.kind = "string" /\ v.s # <<>>

\* a || b
Or(a, b) == IF Truthy(a) THEN a ELSE b

Digit(ch) ==
  CASE ch = "0" -> 0 [] ch = "1" -> 1 [] ch = "2" -> 2 [] ch = "3" -> 3 [] ch = "4" -> 4
    [] ch = "5" -> 5 [] ch = "6" -> 6 [] ch = "7" -> 7 [] ch = "8" -> 8 [] ch = "9" -> 9
    [] OTHER -> -1

\* The value of the longest prefix of digits of s, after the digits read so
\* far (acc); -1 when s starts with no digit and none was read.
RECURSIVE Digits(_, _, _)
Digits(s, acc, any) ==
  IF s = <<>> \/ Digit(Head(s)) = -1
  THEN IF any THEN acc ELSE -1
  ELSE Digits(Tail(s), 10 * acc + Digit(Head(s)), TRUE)

DigitChar(d) ==
  CASE d = 0 -> "0" [] d = 1 -> "1" [] d = 2 -> "2" [] d = 3 -> "3" [] d = 4 -> "4"
    [] d = 5 -> "5" [] d = 6 -> "6" [] d = 7 -> "7" [] d = 8 -> "8" [] OTHER -> "9"

\* The decimal digits of a natural number.
RECURSIVE Decimal(_)
Decimal(n) ==
  IF n < 10 THEN <<DigitChar(n)>> ELSE Append(Decimal(n \div 10), DigitChar(n % 10))

\* value.toString()
toString(v) ==
  IF v.kind = "string" THEN v.s
  ELSE IF v.kind = "boolean" THEN IF v.n = 1 THEN <<"t", "r", "u", "e">> ELSE <<"f", "a", "l", "s", "e">>
  ELSE IF v.kind = "number" THEN IF v.n < 0 THEN <<"-">> \o Decimal(0 - v.n) ELSE Decimal(v.n)
  ELSE IF v.kind = "NaN" THEN <<"N", "a", "N">>
  ELSE <<"u", "n", "d", "e", "f", "i", "n", "e", "d">>

\* parseInt(v, 0): an optional sign, then the leading digits; NaN without any.
ParseInt(v) ==
  LET s == toString(v)
      neg == s # <<>> /\ Head(s) = "-"
      d == Digits(IF neg THEN Tail(s) ELSE s, 0, FALSE)
  IN  IF d = -1 THEN NaN ELSE Num(IF neg THEN 0 - d ELSE d)

\* Constants.Utils.TRUE_BOOLEAN_MATCHER: /^(\s*(1|true|yes|t|y|on)\s*)$/i
TRUE_BOOLEAN_MATCHER(s) ==
  s \in {<<"1">>, <<"t", "r", "u", "e">>, <<"y", "e", "s">>, <<"t">>, <<"y">>, <<"o", "n">>}

\* Utils.parseBoolean: value && value.toString().match(TRUE_BOOLEAN_MATCHER) !== null
ParseBoolean(v) == Truthy(v) /\ TRUE_BOOLEAN_MATCHER(toString(v))

\* if(!configuration.port) configuration.port = defaultPort
SanitizedPort == IF Truthy(cfgPort) THEN cfgPort ELSE Num(DefaultPort)

\* sanitizeConfiguration / loadConfiguration / _loadConfiguration: the
\* defaults of the port and of ssl; the object variant parses ssl.enabled.
SanitizeConfiguration ==
  /\ bpc = "new"
  /\ bpc' = "loaded"
  /\ cfgPort' = SanitizedPort
  /\ cfgSsl' = IF variant = "object" THEN Bool(ParseBoolean(cfgSsl))
               ELSE IF cfgSsl = Undef THEN Bool(FALSE) ELSE cfgSsl
  /\ UNCHANGED <<variant, runVars, srvVars, httpVars, envPORT, envSSL, filePort, port, bound, tls, tlsRead>>

\* useSSL = (process.env.SSL || ssl.enabled) && !Application.production
\* _loadSSL: production || (!parseBoolean(process.env.SSL) && !ssl.enabled) -> false
UseSSL ==
  IF variant = "object"
  THEN ~production /\ (ParseBoolean(envSSL) \/ Truthy(cfgSsl))
  ELSE Truthy(Or(envSSL, cfgSsl)) /\ ~production

\* prepare: this.port = parseInt(process.env.PORT || configuration.httpServer.port, 0)
\* _configureExpress: the same, then the default when negative or NaN; the
\* TypeScript variant keeps no port of its own. create calls _loadSSL
\* before it, which reads the key and the certificate.
SetPort ==
  /\ bpc = "loaded"
  /\ bpc' = "prepared"
  /\ port' = LET p == ParseInt(Or(envPORT, cfgPort))
             IN  IF variant = "ts" THEN port
                 ELSE IF variant = "object" /\ (p = NaN \/ p.n < 0) THEN Num(DefaultPort)
                 ELSE p
  /\ tlsRead' = (variant = "object" /\ UseSSL)
  /\ UNCHANGED <<variant, runVars, srvVars, httpVars, envPORT, envSSL, filePort, cfgPort, cfgSsl, bound, tls>>

\* execute / run: createServer with or without TLS, then listen.
CreateListener ==
  /\ bpc = "prepared"
  /\ bpc' = "listening"
  /\ tls' = IF UseSSL THEN "https" ELSE "http"
  /\ tlsRead' = (tlsRead \/ UseSSL)
  /\ bound' = IF variant = "object" THEN port ELSE cfgPort
  /\ UNCHANGED <<variant, runVars, srvVars, httpVars, envPORT, envSSL, filePort, cfgPort, cfgSsl, port>>

\* ------------------------------------------------------ specification
\* No request in the pipeline.
HttpIdle ==
  /\ req = NoReq
  /\ rpc = "idle"
  /\ reqBody = "undefined"
  /\ thrown = NoThrow
  /\ res = NoRes
  /\ appLog = <<>>
  /\ reqLog = <<>>
  /\ ran = <<>>
  /\ io = <<>>
  /\ nReq = 0

ProcessInit ==
  /\ variant \in Variants
  /\ pc = "idle"
  /\ error = NoError
  /\ cleaned = FALSE
  /\ trace = <<>>
  /\ exitCode = -1
  /\ runResult = Pending
  /\ runInst = 0
  /\ exitSignal = "0"
  /\ nExec = 0
  /\ listener = [i \in Insts |-> "none"]
  /\ listenCalls = [i \in Insts |-> 0]
  /\ sockets = [i \in Insts |-> {}]
  /\ promise = [i \in Insts |-> Pending]
  /\ closeCbs = [i \in Insts |-> <<>>]
  /\ shutdowns = [i \in Insts |-> 0]
  /\ handlers = [s \in Signals |-> <<>>]
  /\ conn = [c \in Conns |-> NoConn]
  /\ connEvents = [i \in Insts |-> {}]
  /\ closeEvents = [i \in Insts |-> {}]
  /\ events = <<>>
  /\ nSignals = 0
  /\ nKinds = 0
  /\ sigSeen = [i \in Insts |-> FALSE]
  /\ firstClose = [i \in Insts |-> "unset"]

\* Nothing configured yet: no environment variable, an empty configuration
\* file, no listener.
BootIdle ==
  /\ envPORT = Undef
  /\ envSSL = Undef
  /\ filePort = Undef
  /\ cfgPort = Undef
  /\ cfgSsl = Undef
  /\ port = Undef
  /\ bound = Undef
  /\ tls = "none"
  /\ tlsRead = FALSE
  /\ bpc = "new"

\* A process outside production (where TLS may be enabled), serving no
\* request yet.
Init == ProcessInit /\ HttpIdle /\ BootIdle /\ cors = NoCors /\ production = FALSE

Next ==
  \/ RunStart
  \/ \E ok \in BOOLEAN : LoggerPrepare(ok)
  \/ \E ok \in BOOLEAN : LoadConfiguration(ok)
  \/ \E ok \in BOOLEAN : Prepare(ok)
  \/ \E ok \in BOOLEAN : StartLog(ok)
  \/ \E tlsOk \in BOOLEAN : RunExecute(tlsOk)
  \/ ExecuteSettled
  \/ \E ok \in BOOLEAN : CompletionLog(ok)
  \/ \E ok \in BOOLEAN : Cleanup(ok)
  \/ \E ok \in BOOLEAN : Fatal(ok)
  \/ \E ok \in BOOLEAN : End(ok)
  \/ \E ok \in BOOLEAN : FinalLog(ok)
  \/ Kill
  \/ \E tlsOk \in BOOLEAN : Execute(tlsOk)
  \/ \E i \in Insts : Listening(i)
  \/ \E i \in Insts, e \in ListenErrors : ListenerError(i, e)
  \/ \E i \in Insts, c \in Conns : Connection(i, c)
  \/ \E c \in Conns : Request(c)
  \/ \E c \in Conns : Response(c)
  \/ \E c \in Conns : PeerCloses(c)
  \/ \E c \in Conns : DestroyedCloses(c)
  \/ \E sig \in Signals, ce \in {NoError, "CLOSE_ERROR"} : Signal(sig, ce)
  \/ \E i \in Insts : CloseCallback(i)

Spec == Init /\ [][Next]_vars

\* The event loop delivers the close event of a destroyed socket and runs
\* the close callback of a listener whose connections have all ended.
FairSpec ==
  /\ Spec
  /\ \A c \in Conns : WF_vars(DestroyedCloses(c))
  /\ \A i \in Insts : WF_vars(CloseCallback(i))

\* The request pipeline alone, in either mode, before any run or signal;
\* the consumer may have called addCORSHandling, with or without an origin.
HttpInit ==
  /\ ProcessInit
  /\ HttpIdle
  /\ BootIdle
  /\ production \in BOOLEAN
  /\ \E c \in ConfiguredOrigins, i \in BOOLEAN :
       /\ (i \/ c = "")
       /\ cors = [installed |-> i, configured |-> c, origin |-> c]

HttpNext ==
  \/ /\ rpc = "idle"
     /\ \E m \in Methods, ct \in ContentTypes, raw \in RawBodies, rt \in Routes, o \in Origins,
           e \in RouteErrors :
          Receive(m, ct, raw, rt, o, e)
  \/ JsonParser
  \/ TextParser
  \/ OnlyJson
  \/ Ping
  \/ CORSHandling
  \/ Route
  \/ \E code \in ErrorCodes, msg \in Messages, single \in BOOLEAN : GeneralErrorRoute(code, msg, single)
  \/ \E code \in Codes, content \in {NoBody, Payload} : SendAgain(code, content)
  \/ ErrorHandler
  \/ Complete

HttpSpec == HttpInit /\ [][HttpNext]_vars

\* The request a server takes while it starts, serves and shuts down: one
\* whose route handler throws, or one whose body is rejected.
ServedContentTypes ==
  {[type |-> "application", tree |-> "", sub |-> "json"],
   [type |-> "text", tree |-> "", sub |-> "plain"]}

\* The first request to arrive on an open connection enters the pipeline.
ServeReceive ==
  /\ rpc = "idle"
  /\ nReq = 0
  /\ \E c \in Conns : conn[c].inflight
  /\ \E ct \in ServedContentTypes :
       Receive("POST", ct, "json", "/throws", "", Err("Error", "boom"))

\* A step of the handling of a request.
HandlesRequest ==
  \/ ServeReceive
  \/ JsonParser
  \/ TextParser
  \/ OnlyJson
  \/ Ping
  \/ CORSHandling
  \/ Route
  \/ ErrorHandler
  \/ Complete

ServeNext ==
  \/ \E tlsOk \in BOOLEAN : Execute(tlsOk)
  \/ \E i \in Insts : Listening(i)
  \/ \E i \in Insts, e \in ListenErrors : ListenerError(i, e)
  \/ \E i \in Insts, c \in Conns : Connection(i, c)
  \/ \E c \in Conns : Request(c)
  \/ \E c \in Conns : Response(c)
  \/ \E c \in Conns : PeerCloses(c)
  \/ \E c \in Conns : DestroyedCloses(c)
  \/ \E sig \in Signals, ce \in {NoError, "CLOSE_ERROR"} : Signal(sig, ce)
  \/ \E i \in Insts : CloseCallback(i)
  \/ HandlesRequest

\* The server and the requests it handles, without the run around it.
ServeSpec == Init /\ [][ServeNext]_vars

\* The server's start-up alone: what the environment and the configuration
\* file hold, then the configuration's defaults, the port and the listener.
BootInit ==
  /\ ProcessInit
  /\ HttpIdle
  /\ cors = NoCors
  /\ production \in BOOLEAN
  /\ envPORT \in EnvPorts
  /\ envSSL \in EnvSSLs
  /\ filePort \in FilePorts
  /\ cfgPort = filePort
  /\ cfgSsl \in FileSSLs
  /\ port = Undef
  /\ bound = Undef
  /\ tls = "none"
  /\ tlsRead = FALSE
  /\ bpc = "new"

BootNext ==
  \/ SanitizeConfiguration
  \/ SetPort
  \/ CreateListener

BootSpec == BootInit /\ [][BootNext]_vars


\* ================================================================ claims

MainStepErrors == {"loadConfiguration", "prepare", TlsError} \cup ListenErrors \cup CloseErrors

\* C1: during one invocation of run the cleanup hook is invoked at most
\* once, on every path.
CleanupAtMostOnce == CleanupCalls <= 1

\* C2: if loadConfiguration, prepare or execute fails during run, cleanup
\* has been invoked exactly once when run exits the process.
CleanupOnceOnFailure ==
  (exitCode \in {0, 1} /\ error \in MainStepErrors) => CleanupCalls = 1

\* The first call of server.close on the listener of i reported no error.
FirstCloseOk(i) == firstClose[i] = NoError

ShutDown(i) ==
  /\ listener[i] = "closed"
  /\ OpenConns(i) = {}
  /\ sockets[i] = {}
  /\ FirstCloseOk(i) => promise[i] = Resolved

ShutdownAtMostOnce == \A i \in Insts : shutdowns[i] <= 1

\* C5: after any number of execute invocations each signal has exactly one
\* registered handler, that of the most recent invocation.
OneHandlerPerSignal ==
  nExec >= 1 => \A s \in Signals : handlers[s] = <<nExec>>

\* --------------------------------------------------------- run, C11-C14
IsPrefix(a, b) == Len(a) <= Len(b) /\ a = SubSeq(b, 1, Len(a))

\* The steps of a run of the class, in the order start and end invoke them.
StepOrder ==
  <<"loggerPrepare", "loadConfiguration", "prepare", "startLog", "execute",
    "completionLog", "cleanup", "finalLog">>

\* C11: on a run of the class in which no step fails the steps are invoked
\* in the order logger preparation, loadConfiguration, prepare, start log,
\* execute, completion log, cleanup, final log, process exit, and the
\* completion log follows only once execute has resolved.
StepsInOrder ==
  variant = "class" =>
    /\ error = NoError /\ "consoleError" \notin Range(trace) => IsPrefix(trace, StepOrder)
    /\ exitCode = 0 => trace = StepOrder
    /\ "completionLog" \in Range(trace) => runInst # 0 /\ promise[runInst] = Resolved

CleanRunExited ==
  variant = "class" /\ exitCode = 0 /\ trace = StepOrder /\ connEvents[runInst] # {}

HookErrors == MainStepErrors \cup {"cleanup"}

RunOver == exitCode \in {0, 1} \/ pc = "done"

\* C12: whenever loadConfiguration, prepare, execute or cleanup fails
\* during run, one fatal log entry is emitted and the result of run is
\* rejected with that same error.
RunRejectsWithError ==
  (RunOver /\ error \in HookErrors) =>
    /\ runResult = Rejected(error)
    /\ Cardinality({k \in DOMAIN trace : trace[k] = "fatalLog"}) = 1

GenericMessage == "Internal Application Error."
InvalidJsonMessage == "Invalid JSON POST data received."

\* The strings a response body carries, and those an error is made of.
Parts(b) == ({b.message, b.detail, b.type} \cup Range(b.stack)) \ {""}
Details(e) == {e.message, e.type} \cup {e.stack[k].text : k \in DOMAIN e.stack}

Handled == rpc = "done" /\ thrown # NoThrow

GenericAnswer ==
  /\ res.status = ERROR
  /\ res.body.message = GenericMessage
  /\ Parts(res.body) \cap Details(thrown) = {}

\* C15 as stated: in production every error that reaches the error handler
\* is answered with 500 and the generic message, and nothing of the
\* error's message, type or stack is in the body, whatever the method and
\* the error.
ProductionHidesErrors ==
  (production /\ Handled) => GenericAnswer

\* C15 as amended: so it is for an error that arrives before the headers
\* were sent and is not a SyntaxError on a POST request; that one is
\* answered with 400 and its message.
ProductionHidesOtherErrors ==
  [][(ErrorHandler /\ production /\ ~res.headersSent /\ ~MalformedPost) => GenericAnswer']_vars

SyntaxErrorHiddenOnPut ==
  /\ production /\ Handled /\ GenericAnswer
  /\ thrown.type = "SyntaxError" /\ req.method = "PUT"

Rejected400 == res.status = BAD_REQUEST /\ res.body.message = InvalidJsonMessage

\* C16: every request with a non-JSON content type and a non-empty body,
\* whatever its method and route, is answered with 400 and the message
\* "Invalid JSON POST data received.".
NonJsonBodyRejected ==
  (rpc = "done" /\ ~VALID_JSON_BODY(req.ctype) /\ req.raw # "empty") => Rejected400

\* C17: a POST request with a JSON content type and a body that is not
\* valid JSON is answered with 400 and {errors: [{code: 400, message:
\* "Invalid JSON POST data received.", error: <parser message>}]}, in
\* production and outside it.
MalformedJsonRejected ==
  (rpc = "done" /\ req.method = "POST" /\ VALID_JSON_BODY(req.ctype) /\ req.raw = "garbage") =>
    /\ res.status = BAD_REQUEST
    /\ res.body = Body("errors", BAD_REQUEST, InvalidJsonMessage, ParserMessage, "", <<>>)

MalformedJsonInProduction ==
  /\ production /\ rpc = "done" /\ req.method = "POST" /\ req.raw = "garbage"
  /\ req.ctype.tree = "vnd.api+" /\ VALID_JSON_BODY(req.ctype)
  /\ res.body.detail = ParserMessage

ErrorStatuses == {BAD_REQUEST, NOT_FOUND, ERROR}

Envelope == res.body.form \in {"error", "errors"} /\ res.body.code = res.status

\* The frames of an error's stack: its lines but the first, without the
\* leading "at "; none for an error without a stack.
Frames(e) ==
  LET lines == [k \in DOMAIN e.stack |-> e.stack[k].text]
  IN  IF lines = <<>> THEN <<>> ELSE Tail(lines)

\* C18 as stated: every error response (404, 400, 500, in both modes, for
\* string and other errors) is an envelope {error: ...} or {errors: [...]}
\* whose code is the status of the response.
ErrorsAreEnvelopes ==
  (rpc = "done" /\ res.status \in ErrorStatuses) => Envelope

\* C18 as amended: the same, except that outside production an error that
\* is not a string is answered with 500 and {type, message, stack}.
ErrorsAreEnvelopesButRaw ==
  (rpc = "done" /\ res.status \in ErrorStatuses) =>
    \/ Envelope
    \/ /\ ~production /\ Handled /\ thrown.type # "string"
       /\ res.status = ERROR
       /\ res.body = Body("raw", 0, thrown.message, "", thrown.type, Frames(thrown))

StringErrorEnvelope ==
  /\ ~production /\ Handled /\ thrown.type = "string"
  /\ res.status = ERROR /\ Envelope /\ res.body.message = thrown.message

\* C19 as stated: every error of a request, a body parse error or an
\* exception of a route handler, whatever the method, is logged before
\* the request completes.
ErrorsLogged ==
  Handled => thrown \in Range(appLog)

\* C19 as amended: the error handler logs the error exactly when the
\* headers were not sent yet and it is not a SyntaxError on a POST request.
ErrorsLoggedButMalformedPost ==
  [][ErrorHandler => (thrown \in Range(appLog') <=> (~res.headersSent /\ ~MalformedPost))]_vars

ParseErrorLoggedOnPut ==
  /\ Handled /\ req.method = "PUT" /\ thrown = Err("SyntaxError", ContentTypeMessage)
  /\ appLog = <<thrown>>

\* C20: an error that reaches the error handler after the headers were
\* sent makes it write nothing and log nothing; the response sent stays
\* as it is.
SentResponseUntouched ==
  [][(ErrorHandler /\ res.headersSent) =>
        (res' = res /\ appLog' = appLog /\ reqLog' = reqLog)]_vars

ErrorAfterResponse ==
  /\ Handled /\ req.route = "/late"
  /\ res.status = OK /\ res.body.form = "json"
  /\ appLog = <<>> /\ Len(reqLog) = 1 /\ reqLog[1].status = OK

\* The index of the last close call before the k-th call (0 if none).
PrevClose(k) ==
  LET before == {j \in 1..(k - 1) : events[j].kind = "close"}
  IN  IF before = {} THEN 0 ELSE CHOOSE j \in before : \A m \in before : m <= j

\* C6: on a signal destroy is called on every socket tracked at that moment
\* and only then is the listener asked to close; no connection of the
\* server stays open to complete a request in flight.
DestroyAllThenClose ==
  /\ \A k \in DOMAIN events :
       events[k].kind = "close" =>
         \A c \in events[k].tracked :
           \E j \in (PrevClose(k) + 1)..(k - 1) :
             events[j].kind = "destroy" /\ events[j].conn = c /\ events[j].inst = events[k].inst
  /\ \A i \in Insts : shutdowns[i] > 0 => \A c \in Conns : conn[c].owner = i => conn[c].st # "open"

InFlightDestroyed ==
  \E k \in DOMAIN events :
    /\ events[k].kind = "close"
    /\ Cardinality(events[k].tracked) = 2
    /\ \E c \in events[k].tracked : conn[c].st = "destroyed" /\ conn[c].inflight

\* C7: the tracked set holds exactly the connections with a connection
\* event and no close event yet, whatever requests they carried.
TrackedSetExact ==
  \A i \in Insts : sockets[i] = connEvents[i] \ closeEvents[i]

TrackedAcrossRequests ==
  \E i \in Insts, c, d \in Conns :
    /\ c \in sockets[i] /\ conn[c].inflight
    /\ d \in closeEvents[i] /\ d \notin sockets[i]

\* The lifecycle state of an invocation of execute, read off its state:
\* not yet invoked, rejected, resolved, handler run, or none of these.
Lifecycle(i) ==
  IF i > nExec THEN "IDLE"
  ELSE IF promise[i].st = "rejected" THEN "ERROR"
  ELSE IF promise[i].st = "resolved" THEN "CLOSED"
  ELSE IF shutdowns[i] > 0 THEN "DRAINING"
  ELSE "LISTENING"

LifecycleSteps ==
  {<<"IDLE", "LISTENING">>, <<"LISTENING", "DRAINING">>, <<"DRAINING", "CLOSED">>,
   <<"LISTENING", "ERROR">>, <<"DRAINING", "ERROR">>}

\* C8: the lifecycle state changes only along IDLE, LISTENING,
\* DRAINING, CLOSED or into ERROR from LISTENING or DRAINING; ERROR and
\* CLOSED are never left and ERROR is never entered from IDLE.
LifecycleOrder ==
  [][\A i \in Insts :
       \/ Lifecycle(i)' = Lifecycle(i)
       \/ <<Lifecycle(i), Lifecycle(i)'>> \in LifecycleSteps]_vars

\* C9: a listener error event before execute is settled rejects it with
\* exactly that error, and listen is not called again.
ListenerErrorRejects ==
  /\ [][\A i \in Insts, e \in ListenErrors :
          (ListenerError(i, e) /\ promise[i] = Pending) =>
            (promise'[i] = Rejected(e) /\ listenCalls'[i] = listenCalls[i])]_vars
  /\ [](\A i \in Insts : listenCalls[i] <= 1)

RejectedByListenerError ==
  \E i \in Insts :
    /\ promise[i].st = "rejected" /\ promise[i].err \in ListenErrors
    /\ listenCalls[i] = 1

CloseOutcome(e) == IF e = NoError THEN Resolved ELSE Rejected(e)

\* C10 as stated: when the close callback fires, execute resolves if it
\* reports no error and rejects with the reported error otherwise.
CloseCallbackSettles ==
  [][\A i \in Insts :
       CloseCallback(i) => promise'[i] = CloseOutcome(Head(closeCbs[i]))]_vars

\* C10 as amended: so it is while execute is still pending; an outcome
\* already settled, by a listener error or an earlier callback, stands.
CloseCallbackSettlesPending ==
  [][\A i \in Insts :
       CloseCallback(i) =>
         promise'[i] = IF promise[i] = Pending THEN CloseOutcome(Head(closeCbs[i]))
                       ELSE promise[i]]_vars

RejectedByCloseError ==
  \E i \in Insts : firstClose[i] = "CLOSE_ERROR" /\ promise[i] = Rejected("CLOSE_ERROR")

\* C21: a second call of sendResponse for a request whose headers were sent
\* does not throw and leaves the response the client sees as it is.
SecondSendHarmless ==
  [][\A code \in Codes, content \in {NoBody, Payload} :
       SendAgain(code, content) => (res' = res /\ thrown' = NoThrow)]_vars

\* C22: outside production the error handler answers an error that is not
\* a SyntaxError of a POST request, and arrives before the headers were
\* sent, with 500 and {errors: [{code: 500, message}]} for a string, and
\* else {type, message, stack} with the stack's frames (none without stack).
NonProductionAnswer ==
  [][(ErrorHandler /\ ~production /\ ~res.headersSent
        /\ ~(thrown.type = "SyntaxError" /\ req.method = "POST")) =>
       /\ res'.status = ERROR
       /\ res'.body = IF thrown.type = "string"
                      THEN Body("errors", ERROR, thrown.message, "", "", <<>>)
                      ELSE Body("raw", 0, thrown.message, "", thrown.type, Frames(thrown))]_vars

StacklessErrorAnswered ==
  /\ ~production /\ Handled /\ thrown = NoStackError
  /\ res.status = ERROR /\ res.body.form = "raw" /\ res.body.stack = <<>>

\* The level the status class of c calls for.
LevelOf(c) ==
  IF 400 <= c /\ c < 500 THEN "warn"
  ELSE IF 500 <= c /\ c < 600 THEN "error"
  ELSE IF 300 <= c /\ c < 400 THEN "debug"
  ELSE "info"

\* The first and the last code of each hundred around the classes.
Boundaries == {100 * k - 1 : k \in 0..7} \cup {100 * k : k \in 0..7}

\* C23: logRequest logs at warn for 400..499, error for 500..599, debug for
\* 300..399 and info for any other code: in every record logged, and for
\* the codes at the boundaries of the classes.
LevelByStatusClass ==
  /\ \A k \in DOMAIN reqLog : reqLog[k].level = LevelOf(reqLog[k].status)
  /\ \A c \in Boundaries : LogLevel(c) = LevelOf(c)

ClientErrorLoggedAsWarning ==
  /\ rpc = "done" /\ req.route = "/ok"
  /\ \E k \in DOMAIN reqLog : reqLog[k].status = 499 /\ reqLog[k].level = "warn"

\* C24 as stated: the record of a POST request holds the body outside
\* production and no body in production; no other record holds a body.
BodyLoggedOutsideProductionOnly ==
  \A k \in DOMAIN reqLog :
    (reqLog[k].body # "absent") <=> (reqLog[k].method = "POST" /\ ~production)

\* C24 as amended: so it is in the class and object variants; the
\* TypeScript variant logs the body of a POST request in production too.
BodyLoggedPerVariant ==
  \A k \in DOMAIN reqLog :
    (reqLog[k].body # "absent") <=>
      (reqLog[k].method = "POST" /\ (~production \/ variant = "ts"))

BodyLoggedInProduction ==
  /\ variant = "ts" /\ production /\ rpc = "done" /\ req.method = "POST"
  /\ \E k \in DOMAIN reqLog : reqLog[k].body = "object"

Pong == res.status = OK /\ res.body = Body("text", 0, "pong", "", "", <<>>)

\* C25 as stated: every request to /ping, whatever its method, headers and
\* body, is answered with 200 and "pong".
PingAlwaysPong ==
  (rpc = "done" /\ req.route = "/ping") => Pong

\* C25 as amended: every GET request to /ping that passed the body
\* parsers is answered with 200 and "pong", whatever the consumer installed.
GetPingPong ==
  (rpc = "done" /\ req.route = "/ping" /\ req.method = "GET" /\ thrown = NoThrow) => Pong

PingAnsweredBeforeCors ==
  /\ rpc = "done" /\ req.route = "/ping" /\ req.method = "GET"
  /\ cors.installed /\ Pong /\ res.allowOrigin = ""

\* C26: with CORS handling installed without an origin, an OPTIONS request
\* without Origin header is answered with 204 and no Access-Control-*
\* header, whatever requests came before.
OptionsWithoutOrigin ==
  [][(CORSHandling /\ cors.installed /\ cors.configured = ""
        /\ req.method = "OPTIONS" /\ req.origin = "") =>
       (res'.status = NO_CONTENT /\ res'.allowOrigin = "")]_vars

\* C27: when an origin was passed to addCORSHandling, the
\* Access-Control-Allow-Origin header of every response is that origin,
\* whatever Origin header the request carries.
ConfiguredOriginWins ==
  [][(CORSHandling /\ cors.installed /\ cors.configured # "") =>
       res'.allowOrigin = cors.configured]_vars

\* C28: when PORT holds a valid positive integer, the listener binds to it
\* and not to the port of the configuration file.
EnvPortBound ==
  (bpc = "listening" /\ envPORT = Str(<<"8", "0", "8", "0">>)) => bound = Num(8080)

\* A supplied port that is absent, not a number, zero or negative.
Unusable(v) ==
  \/ v.kind \in {"undefined", "NaN"}
  \/ v.kind = "number" /\ v.n <= 0
  \/ v.kind = "string" /\ v.s # <<"8", "0", "8", "0">>

\* The port supplied: the PORT variable when it is set, else the file's.
Supplied == IF envPORT # Undef THEN envPORT ELSE filePort

\* The port the server keeps to listen on: server.port in the object
\* variant, configuration.httpServer.port in the others.
ServerPort == IF variant = "object" THEN port ELSE cfgPort

\* C29: once the configuration is loaded and the server prepared, its port
\* is the default when the supplied port is absent, not a number, zero or
\* negative.
UnusablePortDefaults ==
  (bpc \in {"prepared", "listening"} /\ Unusable(Supplied)) => ServerPort = Num(DefaultPort)

\* A setting that enables TLS: true in the file, a true word in SSL.
Enables(v) == v \in {Bool(TRUE), Str(<<"t", "r", "u", "e">>)}

\* C30: in production the listener is plaintext and no key or certificate
\* is read; outside production it is a TLS listener exactly when
\* ssl.enabled or the SSL variable enables it.
TlsOnlyOutsideProduction ==
  bpc = "listening" =>
    /\ production => (tls = "http" /\ ~tlsRead)
    /\ ~production => (tls = "https" <=> (Enables(envSSL) \/ Enables(cfgSsl)))

\* The one error object the specification describes for sendGeneralError:
\* {code, message} for a message that is not an object, the message's own
\* fields with code set for an object.
DescribedBody(code, msg, single) ==
  IF msg.kind = "object"
  THEN [Body(IF single THEN "error" ELSE "errors", code, "", "", "", <<>>)
          EXCEPT !.fields = {f \in msg.fields : f[1] # "code"}]
  ELSE Body(IF single THEN "error" ELSE "errors", code, msg.text, "", "", <<>>)

\* C31: for every code, message and single flag, sendGeneralError answers
\* with status code and with the body {error: B} (single) or {errors: [B]},
\* where B is {code, message} for a message that is not an object and the
\* message's fields with code set to the given code for an object.
GeneralErrorAnswer ==
  [][\A code \in ErrorCodes, msg \in Messages, single \in BOOLEAN :
       GeneralErrorRoute(code, msg, single) =>
         /\ res'.headersSent
         /\ res'.status = code
         /\ res'.body = DescribedBody(code, msg, single)]_vars

\* The place of each stage in the order of registration.
StageRank(stage) ==
  CASE stage = "profiler" -> 1
    [] stage = "compression" -> 2
    [] stage = "json" -> 3
    [] stage = "text" -> 4
    [] stage = "onlyJson" -> 5
    [] stage = "ping" -> 6
    [] stage = "middleware" -> 7
    [] stage = "options" -> 8
    [] stage = "route" -> 9
    [] stage = "404" -> 10
    [] stage = "error" -> 11

\* C32: for every request the stages that run do so in the order of
\* registration (profiling, compression in production only, body parsing
\* and rejection, /ping, consumer middleware, consumer routes, the 404
\* catch all, the error handler): no stage runs before an earlier one, and
\* the error handler runs only after a stage failed.
StagesInRegistrationOrder ==
  /\ \A j, k \in DOMAIN ran : j < k => StageRank(ran[j]) < StageRank(ran[k])
  /\ rpc # "idle" => ran[1] = "profiler"
  /\ "compression" \in Range(ran) => production
  /\ "error" \in Range(ran) => thrown # NoThrow

\* In production a request passed every kind of stage up to a route that
\* threw, and the error handler.
FailedRouteStages ==
  /\ rpc = "done"
  /\ ran = <<"profiler", "compression", "json", "text", "onlyJson", "middleware", "route", "error">>

\* The request's content type does not match the JSON pattern and its
\* decoded body is not empty.
NonJsonBody == req # NoReq /\ ~VALID_JSON_BODY(req.ctype) /\ req.raw # "empty"

\* C33: for a request whose content type does not match the JSON pattern
\* and whose decoded body is not empty, no consumer middleware and no route
\* handler (/ping and the 404 catch all included) is invoked: the request
\* goes from the body rejection straight to the error handler.
RejectedBodySkipsHandlers ==
  NonJsonBody =>
    /\ Range(ran) \cap {"ping", "middleware", "options", "route", "404"} = {}
    /\ rpc \notin {"ping", "cors", "route", "again"}
    /\ rpc = "done" => /\ Len(ran) >= 2
                       /\ ran[Len(ran) - 1] = "onlyJson"
                       /\ ran[Len(ran)] = "error"

\* GET /ping with a text body was rejected, not answered with pong.
PingWithTextBodyRejected ==
  /\ NonJsonBody
  /\ rpc = "done"
  /\ req.route = "/ping" /\ req.method = "GET"
  /\ cors.installed
  /\ ran[Len(ran)] = "error"
  /\ res.body # Body("text", 0, "pong", "", "", <<>>)

\* The status a call is to log and to answer with: the code given, else
\* 302 for redirectTo and 200 for sendResponse.
EffectiveStatus(call) ==
  IF call.code # 0 THEN call.code
  ELSE IF call.by = "redirectTo" THEN FOUND ELSE OK

Calls == {k \in DOMAIN io : io[k].kind = "call"}

\* C34: each call of sendResponse or redirectTo emits exactly one record
\* of the request log, carrying the effective status (200 for sendResponse
\* and 302 for redirectTo when no code is given), before the call writes
\* anything to the response.
OneLogRecordBeforeWrite ==
  /\ \A k \in Calls :
       /\ k < Len(io)
       /\ io[k + 1] = Event("log", io[k].by, EffectiveStatus(io[k]))
  /\ \A k \in DOMAIN io :
       io[k].kind = "log" => k > 1 /\ io[k - 1].kind = "call"
  /\ \A k \in DOMAIN io :
       (io[k].kind = "write" /\ io[k].by \in {"sendResponse", "redirectTo"}) =>
         /\ k > 2
         /\ io[k - 1] = Event("log", io[k].by, io[k].code)
         /\ io[k - 2].kind = "call"
  /\ Len(reqLog) = Cardinality(Calls)
  /\ \A n \in DOMAIN reqLog :
       \E k \in Calls :
         /\ Cardinality({j \in Calls : j <= k}) = n
         /\ reqLog[n].status = EffectiveStatus(io[k])

\* redirectTo without a code logged 302, then redirected with 302.
RedirectLoggedWithDefault ==
  /\ rpc = "done"
  /\ req.route = "/redirect"
  /\ io = <<Event("call", "redirectTo", 0), Event("log", "redirectTo", FOUND),
            Event("write", "redirectTo", FOUND)>>
  /\ Len(reqLog) = 1 /\ reqLog[1].status = FOUND
  /\ res.status = FOUND

\* C35: handling a request, one whose route handler throws or whose body
\* is rejected included, never changes the lifecycle state of the server,
\* the set of tracked sockets or the configuration, and never settles the
\* execute operation; nor does it reach the process.
HandlingLeavesServerAlone ==
  [][HandlesRequest => UNCHANGED <<runVars, srvVars, bootVars>>]_vars

\* A listening server with a tracked socket and a pending execute answered
\* a request whose handler threw.
ThrownWhileListening ==
  /\ rpc = "done"
  /\ thrown # NoThrow
  /\ "error" \in Range(ran)
  /\ \E i \in Insts :
       /\ listener[i] = "listening"
       /\ sockets[i] # {}
       /\ promise[i] = Pending

\* C36: the execute operation is settled at most once: once it is rejected
\* by a listener error or settled by a close callback, no later listener
\* error, signal or close callback changes its outcome, however these
\* events interleave.
ExecuteSettledOnce ==
  [][\A i \in Insts : promise[i] # Pending => promise'[i] = promise[i]]_vars

\* An execute rejected by a failed accept kept that outcome through the
\* signal and the close callback that reported a clean close after it.
RejectionSurvivedClose ==
  \E i \in Insts :
    /\ promise[i] = Rejected("EMFILE")
    /\ listener[i] = "closed"
    /\ firstClose[i] = NoError
    /\ closeCbs[i] = <<>>

\* Two instances of the class have a listener each, the first one's still
\* open.
SecondBesideOpenFirst ==
  /\ variant # "object"
  /\ nExec = 2
  /\ listenCalls[2] > 0
  /\ Running(1)

FailedStep == IF error \in {"loadConfiguration", "prepare"} THEN error ELSE "execute"

\* The steps the run invoked, without the marks of what they threw.
Invoked == SelectSeq(trace, LAMBDA step : step # "cleanupThrew")

\* What the run invoked after the failed step.
AfterFailure ==
  LET k == CHOOSE j \in DOMAIN Invoked : Invoked[j] = FailedStep
  IN  SubSeq(Invoked, k + 1, Len(Invoked))

\* C38: if loadConfiguration, prepare or execute fails during run, no later
\* step of the main sequence (prepare, start log, execute, completion log)
\* is invoked in that run: only the fatal log, the fallback cleanup and
\* the final log follow, in this order.
NoMainStepAfterFailure ==
  error \in MainStepErrors =>
    /\ FailedStep \in Range(trace)
    /\ IsPrefix(AfterFailure, <<"fatalLog", "cleanup", "finalLog">>)

\* prepare failed, and the fatal log, the fallback cleanup and the final
\* log followed.
FallbackAfterPrepareFailure ==
  /\ error = "prepare"
  /\ AfterFailure = <<"fatalLog", "cleanup", "finalLog">>

\* The cleanup hook threw on the fallback path, after an earlier step had
\* failed, and the run went on to its end: the final log was written and
\* the exit requested.
FallbackCleanupThrew ==
  /\ error # NoError
  /\ "cleanupThrew" \in Range(trace)
  /\ exitCode \in {0, 1}

\* C39: an exception the cleanup hook throws on the fallback path is
\* swallowed: the run still rejects with the original error, the final log
\* still reports the errors and the exit code is still 1.
FallbackCleanupErrorSwallowed ==
  FallbackCleanupThrew =>
    /\ runResult = Rejected(error)
    /\ trace[Len(trace)] = "finalLog"
    /\ exitCode = 1
====
